---- MODULE Spec2Model ----
(***************************************************************************)
(* Query dispatch pipeline of the multi-agent system: QueryAnalyzer,       *)
(* CacheManager, generate_cache_key (utils.py) and                         *)
(* BrazilianEconomyAgentSystem.process_query with its SIGALRM deadline     *)
(* (main_cli.py).  Time is counted in seconds.                             *)
(*                                                                         *)
(*   Spec        process_query called by main_loop, one call at a time     *)
(*   ThreadSpec  process_query called from two threads at once             *)
(*   CacheSpec   CacheManager.get, set and clear called in any order       *)
(*   KeySpec     generate_cache_key on texts equal up to case and spaces   *)
(*   RouteSpec   _route_query on queries of a few words                    *)
(*   AnalyzeSpec analyze_query on queries of a few words                   *)
(*   CollisionSpec  process_query on two queries whose keys are equal      *)
(***************************************************************************)
EXTENDS Integers, Sequences, FiniteSets, TLC

Min(a, b) == IF a < b THEN a ELSE b
Max(a, b) == IF a > b THEN a ELSE b

(***************************************************************************)
(* Strings: str.lower, str.strip, substring test, \b, \s                   *)
(***************************************************************************)
UpperAlpha == "ABCDEFGHIJKLMNOPQRSTUVWXYZÁÃÂÇÉÊÍÓÕÚ"
LowerAlpha == "abcdefghijklmnopqrstuvwxyzáãâçéêíóõú"
Digits == "0123456789_"

CharAt(s, i) == SubSeq(s, i, i)

CharsOf(s) == {CharAt(s, i) : i \in 1..Len(s)}

\* the characters \s and str.strip take for whitespace
Whitespace == {" ", "\t", "\n"}

IsSpace(c) == c \in Whitespace

\* \w of a str pattern: letters (accented ones included), digits, underscore
IsWordChar(c) == c \in (CharsOf(UpperAlpha) \cup CharsOf(LowerAlpha) \cup CharsOf(Digits))

LowerChar(c) ==
    IF \E i \in 1..Len(UpperAlpha) : CharAt(UpperAlpha, i) = c
    THEN CharAt(LowerAlpha, CHOOSE i \in 1..Len(UpperAlpha) : CharAt(UpperAlpha, i) = c)
    ELSE c

RECURSIVE Lower(_)
Lower(s) == IF Len(s) = 0 THEN "" ELSE LowerChar(CharAt(s, 1)) \o Lower(SubSeq(s, 2, Len(s)))

RECURSIVE LStrip(_)
LStrip(s) == IF Len(s) > 0 /\ IsSpace(CharAt(s, 1)) THEN LStrip(SubSeq(s, 2, Len(s))) ELSE s

RECURSIVE RStrip(_)
RStrip(s) == IF Len(s) > 0 /\ IsSpace(CharAt(s, Len(s))) THEN RStrip(SubSeq(s, 1, Len(s) - 1)) ELSE s

Strip(s) == RStrip(LStrip(s))

\* re.sub(r'\s+', ' ', s): every maximal run of whitespace becomes one space
RECURSIVE CollapseSpaces(_)
CollapseSpaces(s) ==
    IF Len(s) = 0 THEN ""
    ELSE IF IsSpace(CharAt(s, 1))
         THEN " " \o CollapseSpaces(LStrip(s))
         ELSE CharAt(s, 1) \o CollapseSpaces(SubSeq(s, 2, Len(s)))

\* Python's  word in s
Contains(s, word) ==
    \E i \in 1..(Len(s) - Len(word) + 1) : SubSeq(s, i, i + Len(word) - 1) = word

\* \b holds before position i of s (i in 1..Len(s)+1)
WordAt(s, i) == i >= 1 /\ i <= Len(s) /\ IsWordChar(CharAt(s, i))
Boundary(s, i) == WordAt(s, i - 1) # WordAt(s, i)

\* number of whitespace characters of s starting at position i (greedy \s+)
RECURSIVE SpaceRun(_, _)
SpaceRun(s, i) == IF i <= Len(s) /\ IsSpace(CharAt(s, i)) THEN 1 + SpaceRun(s, i + 1) ELSE 0

\* An alternative of a pattern group is a sequence of literals joined by \s+.
\* Length of its match starting at position i of s, 0 when there is none.
RECURSIVE AltLen(_, _, _)
AltLen(alt, s, i) ==
    LET lit == Head(alt)
        n == Len(lit)
    IN  IF i + n - 1 > Len(s) \/ SubSeq(s, i, i + n - 1) # lit THEN 0
        ELSE IF Len(alt) = 1 THEN n
        ELSE LET sp == SpaceRun(s, i + n)
                 rest == IF sp = 0 THEN 0 ELSE AltLen(Tail(alt), s, i + n + sp)
             IN  IF rest = 0 THEN 0 ELSE n + sp + rest

\* \b(alt1|alt2|...)\b at position i: the first alternative, in order, that
\* matches with a word boundary on both sides; 0 when none does
RECURSIVE GroupLen(_, _, _)
GroupLen(alts, s, i) ==
    IF Len(alts) = 0 THEN 0
    ELSE LET n == AltLen(Head(alts), s, i)
         IN  IF n > 0 /\ Boundary(s, i) /\ Boundary(s, i + n) THEN n
             ELSE GroupLen(Tail(alts), s, i)

\* len(re.findall(pattern, s)): non-overlapping matches, scanning left to right
RECURSIVE FindAllFrom(_, _, _)
FindAllFrom(alts, s, i) ==
    IF i > Len(s) THEN 0
    ELSE LET n == GroupLen(alts, s, i)
         IN  IF n > 0 THEN 1 + FindAllFrom(alts, s, i + n)
             ELSE FindAllFrom(alts, s, i + 1)

FindAllCount(alts, s) == FindAllFrom(alts, s, 1)

(***************************************************************************)
(* QueryAnalyzer (utils.py)                                                *)
(***************************************************************************)
\* dict order of INTENT_PATTERNS
IntentOrder == <<"weather", "chart", "research">>

Intents == {IntentOrder[i] : i \in 1..Len(IntentOrder)}

\* each pattern r'\b(a|b|...)\b' as the sequence of its alternatives
INTENT_PATTERNS ==
    [weather |->
        << << <<"clima">>, <<"tempo">>, <<"temperatura">>, <<"chuva">>, <<"sol">>, <<"vento">> >>,
           << <<"previsão">>, <<"meteorol">>, <<"°c">>, <<"celsius">>, <<"fahrenheit">> >>,
           << <<"quente">>, <<"frio">>, <<"nublado">>, <<"ensolarado">> >> >>,
     chart |->
        << << <<"gráfico">>, <<"chart">>, <<"plotar">>, <<"visualiz">>, <<"diagram">> >>,
           << <<"histórico">>, <<"evolução">>, <<"tendência">>, <<"comparar">> >>,
           << <<"linha">>, <<"barras">>, <<"pizza">>, <<"scatter">> >> >>,
     research |->
        << << <<"pib">>, <<"economia">>, <<"dados">>, <<"estatística">> >>,
           << <<"município">>, <<"cidade">>, <<"estado">>, <<"região">> >>,
           << <<"ibge">>, <<"banco", "central">>, <<"bcb">> >> >>]

RECURSIVE SumMatches(_, _)
SumMatches(patterns, s) ==
    IF Len(patterns) = 0 THEN 0
    ELSE FindAllCount(Head(patterns), s) + SumMatches(Tail(patterns), s)

\* intent_scores[intent] of analyze_query
IntentScore(intent, q) == SumMatches(INTENT_PATTERNS[intent], Lower(q))

MaxScore(q) ==
    LET sc == {IntentScore(i, q) : i \in Intents}
    IN  CHOOSE m \in sc : \A n \in sc : n <= m

\* the first intent, in dict order, that has any match at all
BestIntentFirstMatch(q) ==
    LET hit == {i \in 1..Len(IntentOrder) : IntentScore(IntentOrder[i], q) > 0}
    IN  IF hit = {} THEN IntentOrder[1]
        ELSE IntentOrder[CHOOSE i \in hit : \A j \in hit : i <= j]

\* the last key, in dict order, that holds the maximal score
BestIntentLastMax(q) ==
    LET k == CHOOSE i \in 1..Len(IntentOrder) :
                /\ IntentScore(IntentOrder[i], q) = MaxScore(q)
                /\ \A j \in (i + 1)..Len(IntentOrder) :
                       IntentScore(IntentOrder[j], q) # MaxScore(q)
    IN  IntentOrder[k]

\* max(intent_scores, key=intent_scores.get): the first key, in dict order,
\* that holds the maximal score
BestIntent(q) ==
    LET k == CHOOSE i \in 1..Len(IntentOrder) :
                /\ IntentScore(IntentOrder[i], q) = MaxScore(q)
                /\ \A j \in 1..(i - 1) : IntentScore(IntentOrder[j], q) # MaxScore(q)
    IN  IntentOrder[k]

TotalScore(q) ==
    IntentScore("weather", q) + IntentScore("chart", q) + IntentScore("research", q)

\* confidence smoothed as max_score / (total_score + 1)
AnalyzeQuerySmoothed(q) ==
    [intent |-> BestIntent(q),
     confidence |-> <<MaxScore(q), TotalScore(q) + 1>>]

\* QueryClassification; confidence = max_score / max(total_score, 1) is kept as
\* the fraction <<numerator, denominator>>
analyze_query(q) ==
    [intent |-> BestIntent(q),
     confidence |-> <<MaxScore(q), Max(TotalScore(q), 1)>>]

(***************************************************************************)
(* _route_query (main_cli.py)                                              *)
(***************************************************************************)
WeatherWords == {"clima", "tempo", "temperatura", "chuva", "meteorológico"}
ChartWords == {"gráfico", "chart", "plotar", "visualizar", "plot", "graph"}
ResearchWords == {"pesquisa", "economia", "pib", "dados", "ibge", "estatística"}

AnyIn(words, s) == \E w \in words : Contains(s, w)

RouteChartFirst(q) ==
    LET query_lower == Lower(q)
    IN  IF AnyIn(ChartWords, query_lower) THEN "chart"
        ELSE IF AnyIn(WeatherWords, query_lower) THEN "weather"
        ELSE "research"

_route_query(q) ==
    LET query_lower == Lower(q)
    IN  IF AnyIn(WeatherWords, query_lower) THEN "weather"
        ELSE IF AnyIn(ChartWords, query_lower) THEN "chart"
        ELSE IF AnyIn(ResearchWords, query_lower) THEN "research"
        ELSE "research"

(***************************************************************************)
(* generate_cache_key (utils.py)                                           *)
(***************************************************************************)
\* str.encode(): the UTF-8 bytes of a text of letters, digits, "_" and whitespace
RECURSIVE encode(_)
encode(s) ==
    IF s = "" THEN <<>>
    ELSE LET c == CharAt(s, 1)
             bytes ==
                 CASE c = " " -> <<32>>
                   [] c = "\t" -> <<9>>
                   [] c = "\n" -> <<10>>
                   [] c \in CharsOf(Digits) ->
                        LET i == CHOOSE k \in 1..Len(Digits) : CharAt(Digits, k) = c
                        IN  IF i <= 10 THEN <<47 + i>> ELSE <<95>>
                   [] c \in CharsOf(LowerAlpha) ->
                        LET i == CHOOSE k \in 1..Len(LowerAlpha) : CharAt(LowerAlpha, k) = c
                        IN  IF i <= 26 THEN <<96 + i>>
                            ELSE <<195, <<161, 163, 162, 167, 169, 170, 173, 179, 181, 186>>[i - 26]>>
         IN  bytes \o encode(SubSeq(s, 2, Len(s)))

\* MD5 (RFC 1321) on 32-bit words kept as <<high 16 bits, low 16 bits>>:
\* the constants floor(2^32 * abs(sin(i + 1))) and the rotation of each step
Md5K ==
    <<
       <<55146, 42104>>, <<59591, 46934>>, <<9248, 28891>>, <<49597, 52974>>,
       <<62844, 4015>>, <<18311, 50730>>, <<43056, 17939>>, <<64838, 38145>>,
       <<27008, 39128>>, <<35652, 63407>>, <<65535, 23473>>, <<35164, 55230>>,
       <<27536, 4386>>, <<64920, 29075>>, <<42617, 17294>>, <<18868, 2081>>,
       <<63006, 9570>>, <<49216, 45888>>, <<9822, 23121>>, <<59830, 51114>>,
       <<54831, 4189>>, <<580, 5203>>, <<55457, 59009>>, <<59347, 64456>>,
       <<8673, 52710>>, <<49975, 2006>>, <<62677, 3463>>, <<17754, 5357>>,
       <<43491, 59653>>, <<64751, 41976>>, <<26479, 729>>, <<36138, 19594>>,
       <<65530, 14658>>, <<34673, 63105>>, <<28061, 24866>>, <<64997, 14348>>,
       <<42174, 59972>>, <<19422, 53161>>, <<63163, 19296>>, <<48831, 48240>>,
       <<10395, 32454>>, <<60065, 10234>>, <<54511, 12421>>, <<1160, 7429>>,
       <<55764, 53305>>, <<59099, 39397>>, <<8098, 31992>>, <<50348, 22117>>,
       <<62505, 8772>>, <<17194, 65431>>, <<43924, 9127>>, <<64659, 41017>>,
       <<25947, 22979>>, <<36620, 52370>>, <<65519, 62589>>, <<34180, 24017>>,
       <<28584, 32335>>, <<65068, 59104>>, <<41729, 17172>>, <<19976, 4513>>,
       <<63315, 32386>>, <<48442, 62005>>, <<10967, 53947>>, <<60294, 54161>>
    >>

Md5S ==
    <<
       7, 12, 17, 22, 7, 12, 17, 22, 7, 12, 17, 22, 7, 12, 17, 22,
       5, 9, 14, 20, 5, 9, 14, 20, 5, 9, 14, 20, 5, 9, 14, 20,
       4, 11, 16, 23, 4, 11, 16, 23, 4, 11, 16, 23, 4, 11, 16, 23,
       6, 10, 15, 21, 6, 10, 15, 21, 6, 10, 15, 21, 6, 10, 15, 21
    >>

Add32(x, y) ==
    LET lo == x[2] + y[2]
    IN  <<(x[1] + y[1] + (lo \div 65536)) % 65536, lo % 65536>>

\* x rotated left by n bits
Rotl(x, n) ==
    LET hi == IF n >= 16 THEN x[2] ELSE x[1]
        lo == IF n >= 16 THEN x[1] ELSE x[2]
        k  == n % 16
    IN  <<((hi * 2^k) % 65536) + (lo \div 2^(16 - k)),
          ((lo * 2^k) % 65536) + (hi \div 2^(16 - k))>>

\* the functions F, G, H, I of rounds 0..3 on the lowest n bits of three halves
RECURSIVE Md5Mix(_, _, _, _, _)
Md5Mix(round, b, c, d, n) ==
    IF n = 0 THEN 0
    ELSE LET x == b % 2
             y == c % 2
             z == d % 2
             bit == CASE round = 0 -> IF x = 1 THEN y ELSE z
                      [] round = 1 -> IF z = 1 THEN x ELSE y
                      [] round = 2 -> (x + y + z) % 2
                      [] round = 3 -> (y + (IF x = 1 \/ z = 0 THEN 1 ELSE 0)) % 2
         IN  bit + 2 * Md5Mix(round, b \div 2, c \div 2, d \div 2, n - 1)

\* the one 64-byte block of a message of at most 55 bytes: the message, the
\* byte 128, zeros, and the length in bits, as sixteen little-endian words
Md5Words(bytes) ==
    LET n == Len(bytes)
        byte(i) == IF i <= n THEN bytes[i]
                   ELSE IF i = n + 1 THEN 128
                   ELSE IF i = 57 THEN (8 * n) % 256
                   ELSE IF i = 58 THEN (8 * n) \div 256
                   ELSE 0
    IN  [j \in 0..15 |-> <<byte(4 * j + 3) + 256 * byte(4 * j + 4),
                           byte(4 * j + 1) + 256 * byte(4 * j + 2)>>]

\* steps i..63 of the block on the state <<A, B, C, D>> (the test on the
\* state has each step evaluated before the next one is taken)
RECURSIVE Md5Steps(_, _, _)
Md5Steps(st, M, i) ==
    IF i = 64 \/ Len(st) # 4 THEN st
    ELSE LET round == i \div 16
             g == CASE round = 0 -> i
                    [] round = 1 -> (5 * i + 1) % 16
                    [] round = 2 -> (3 * i + 5) % 16
                    [] round = 3 -> (7 * i) % 16
             f == <<Md5Mix(round, st[2][1], st[3][1], st[4][1], 16),
                    Md5Mix(round, st[2][2], st[3][2], st[4][2], 16)>>
             sum == Add32(Add32(f, st[1]), Add32(Md5K[i + 1], M[g]))
         IN  Md5Steps(<<st[4], Add32(st[2], Rotl(sum, Md5S[i + 1])), st[2], st[3]>>, M, i + 1)

\* hashlib.md5(bytes).hexdigest()[:8]: the first four bytes of the digest, which
\* are the word A, low byte first, in hexadecimal
Md5Hex8(bytes) ==
    LET a0  == <<26437, 8961>>
        st  == Md5Steps(<<a0, <<61389, 43913>>, <<39098, 56574>>, <<4146, 21622>> >>,
                        Md5Words(bytes), 0)
        a   == Add32(a0, st[1])
        hex(b) == CharAt("0123456789abcdef", (b \div 16) + 1)
                  \o CharAt("0123456789abcdef", (b % 16) + 1)
    IN  hex(a[2] % 256) \o hex(a[2] \div 256) \o hex(a[1] % 256) \o hex(a[1] \div 256)

NormalizedKeepsRuns(q) == Strip(Lower(q))

\* normalized_query of the query q
NormalizedQuery(q) == CollapseSpaces(Strip(Lower(q)))

\* the queries submitted to the system
Queries == {"plot pib", " Plot  PIB", "xyz", "chuva"}

\* the queries given to generate_cache_key when it is called on its own
BaseQueries == {"PIB sp", " Sã  x"}

\* one query written in two ways
SaoPauloQueries == {"  PIB   São Paulo ", "pib são paulo"}

\* two queries whose normalized texts differ and whose MD5 digests begin with
\* the same eight hexadecimal digits (aadba16a)
CollidingQueries == {"pib 2518", "pib 71448"}

\* the function x |-> Op(x) on S, as an explicit table
RECURSIVE Tabulate(_, _)
Tabulate(Op(_), S) ==
    IF S = {} THEN [x \in {} |-> 0]
    ELSE LET x == CHOOSE y \in S : TRUE
         IN  (x :> Op(x)) @@ Tabulate(Op, S \ {x})

\* query_hash = hashlib.md5(normalized_query.encode()).hexdigest()[:8]
query_hash(normalized_query) == Md5Hex8(encode(normalized_query))

\* query_hash of the normalized texts of the queries above, computed once
HashOf ==
    [normalized_query \in
        {NormalizedQuery(q) :
            q \in Queries \cup BaseQueries \cup SaoPauloQueries \cup CollidingQueries}
            |-> query_hash(normalized_query)]

\* f"{agent_type}:{query_hash}"
generate_cache_key(agent, q) ==
    LET normalized_query == NormalizedQuery(q)
    IN  agent \o ":" \o (IF normalized_query \in DOMAIN HashOf
                          THEN HashOf[normalized_query]
                          ELSE query_hash(normalized_query))

\* the functions above, tabulated over the submitted queries
SystemKey(q) == generate_cache_key("system", q)
AnalysisOf == Tabulate(analyze_query, Queries \cup CollidingQueries)
RouteOf == Tabulate(_route_query, Queries \cup CollidingQueries)
KeyOf == Tabulate(SystemKey, Queries \cup CollidingQueries)
CacheKeys == {KeyOf[q] : q \in Queries}

(***************************************************************************)
(* CacheManager (utils.py).  self.cache is a function whose domain is the  *)
(* set of stored keys; an entry is the pair (value, timestamp).            *)
(***************************************************************************)
ttl_minutes == 30
TTL == ttl_minutes * 60

FreshInclusive(entry, t) == t - entry.timestamp <= TTL

\* line 292
Fresh(entry, t) == t - entry.timestamp < TTL

CacheGetKeepsExpired(c, key, t) ==
    IF key \in DOMAIN c /\ Fresh(c[key], t)
    THEN [value |-> <<c[key].data>>, cache |-> c]
    ELSE [value |-> <<>>, cache |-> c]

\* a get that stamps the entry it returns with the time of the read
CacheGetSliding(c, key, t) ==
    IF key \in DOMAIN c
    THEN IF Fresh(c[key], t)
         THEN [value |-> <<c[key].data>>, cache |-> [c EXCEPT ![key].timestamp = t]]
         ELSE [value |-> <<>>, cache |-> [k \in DOMAIN c \ {key} |-> c[k]]]
    ELSE [value |-> <<>>, cache |-> c]

\* get: <<value>> on a hit, <<>> for None; an expired entry is deleted
CacheGet(c, key, t) ==
    IF key \in DOMAIN c
    THEN IF Fresh(c[key], t)
         THEN [value |-> <<c[key].data>>, cache |-> c]
         ELSE [value |-> <<>>, cache |-> [k \in DOMAIN c \ {key} |-> c[k]]]
    ELSE [value |-> <<>>, cache |-> c]

CacheSetKeepsFresh(c, key, value, t) ==
    IF key \in DOMAIN c /\ Fresh(c[key], t)
    THEN c
    ELSE [k \in DOMAIN c \cup {key} |->
            IF k = key THEN [data |-> value, timestamp |-> t] ELSE c[k]]

CacheSet(c, key, value, t) ==
    [k \in DOMAIN c \cup {key} |-> IF k = key THEN [data |-> value, timestamp |-> t] ELSE c[k]]

EmptyCache == [k \in {} |-> 0]

(***************************************************************************)
(* process_query (main_cli.py)                                             *)
(***************************************************************************)
AGENT_TIMEOUT == 30
AlarmMargin == 5
ErrorPrefix == 100

\* bounds of the model
MaxCalls == 3
MaxTicks == 2
\* lengths of time an executor runs or the user waits in one stretch
TimeSteps == {AGENT_TIMEOUT, AGENT_TIMEOUT + AlarmMargin, TTL}

NoAlarm == -1

\* what an executor's invoke may hand back: the usual dict with "output", or a
\* value that is no dict
HandlerResults ==
    {[kind |-> "dict", output |-> <<[text |-> "answer"]>>],
     [kind |-> "nodict", output |-> <<>>]}

RECURSIVE Repeat(_, _)
Repeat(c, n) == IF n = 0 THEN "" ELSE c \o Repeat(c, n - 1)

\* str(e) of what an executor may raise: a text longer than the prefix
LongError == Repeat("x", ErrorPrefix + 1)
HandlerErrors == {LongError}

TimeoutMessage == "Agent execution timed out"
AttributeErrorMessage == "object has no attribute 'get'"

NoResult == [kind |-> "none", output |-> <<>>]

\* str(e)[:100]
Truncate(e) == SubSeq(e, 1, Min(Len(e), ErrorPrefix))

TimeoutText(q) == [text |-> "timeout", query |-> q]

\* line 286
TimeoutResult(q) == [kind |-> "dict", output |-> <<TimeoutText(q)>>]

\* line 291
ErrorResult(q, e) ==
    [kind |-> "dict", output |-> <<[text |-> "failed", query |-> q, error |-> Truncate(e)]>>]

\* result.get("output", "Resposta não disponível")
GetOutput(r) == IF r.output = <<>> THEN [text |-> "Resposta não disponível"] ELSE r.output[1]

ExecutorAlwaysResearch(r) == "research_executor"

\* lines 264-276
ExecutorFor(r) ==
    IF r = "research" THEN "research_executor"
    ELSE IF r = "chart" THEN "chart_executor"
    ELSE IF r = "weather" THEN "weather_executor"
    ELSE "research_executor"

\* lines 297-310
FinalResult(r, rt, q, an, pt, t) ==
    [success |-> TRUE,
     content |-> GetOutput(r),
     agent_used |-> rt,
     query |-> q,
     analysis |-> an,
     processing_time |-> pt,
     timestamp |-> t]

\* lines 325-331
ErrorOutcome(e, q, pt, t) ==
    [success |-> FALSE,
     error |-> e,
     query |-> q,
     processing_time |-> pt,
     timestamp |-> t]

CacheableAlways(pt) == TRUE

CacheableAtDeadline(pt) == pt <= AGENT_TIMEOUT

\* line 313
Cacheable(pt) == pt < AGENT_TIMEOUT

VARIABLES
    has_SIGALRM,   \* hasattr(signal, 'SIGALRM'): fixed by the platform
    now,           \* wall clock, seconds
    cache,         \* cache_manager.cache
    alarm,         \* time at which the pending SIGALRM is due, NoAlarm if none
    pc,            \* position of the main thread
    query, start_time, analysis, route, result,   \* locals of process_query
    exc,           \* str(e) of the exception caught at line 288, "" if none
    outer_exc,     \* str(e) of the exception caught at line 318, "" if none
    returned,      \* <<Outcome>> handed to the caller by the call, <<>> if none
    escaped,       \* where an exception left process_query: "none" if it never did
    ncalls,        \* calls of process_query so far
    nticks,        \* stretches of time passed so far
    execState,     \* Execute state of the call: none, Running, Completed, Failed, TimedOut
    execStart,     \* time the call entered Execute, -1 before
    invoked,       \* executors invoked by the call, in order
    produced,      \* what the executors of the call returned, in order
    classified,    \* runs of analyze_query in the call
    cacheWrites,   \* cache_manager.set calls of the call
    atSubmit,      \* <<entry>> the cache held for the call's key when the call began
    cleared,       \* keys 'cache clear' removed whose query has not been answered since
    agent_type, base_query, variant_query,   \* arguments given to generate_cache_key
    base_key, variant_key,                   \* the keys it returned for them
    thread,        \* the calls of process_query made from several threads at once
    call,          \* the last call of a method of cache_manager made by another caller
    text, routed   \* a query given to _route_query, and <<the route returned>>

vars == <<has_SIGALRM, now, cache, alarm, pc, query, start_time, analysis, route, result,
          exc, outer_exc, returned, escaped, ncalls, nticks, execState, execStart, invoked,
          produced, classified, cacheWrites, atSubmit, cleared,
          agent_type, base_query, variant_query, base_key, variant_key, thread,
          call, text, routed>>

locals == <<query, start_time, analysis, route, result, exc, outer_exc>>
ghosts == <<execState, execStart, invoked, produced, classified, cacheWrites, atSubmit>>

\* state of the calls of generate_cache_key made apart from process_query
keyVars == <<agent_type, base_query, variant_query, base_key, variant_key>>

NoAnalysis == [intent |-> "", confidence |-> <<0, 1>>]

\* no call of generate_cache_key apart from process_query
KeyIdle ==
    /\ agent_type = ""
    /\ base_query = ""
    /\ variant_query = ""
    /\ base_key = ""
    /\ variant_key = ""

\* the threads calling process_query at once; signal handlers run in the first
Threads == {"MainThread", "Thread-1"}

\* a thread that is not in process_query: pc is its position, query and
\* start_time the locals of the call, seen the entry read at line 290 of
\* utils.py, dropped the entry deleted at line 297, execStart the time its
\* executor was invoked, result what line 293 of main_cli.py finds, outcome
\* what the call returned
IdleThread ==
    [pc |-> "idle", query |-> "", start_time |-> 0, seen |-> <<>>, dropped |-> <<>>,
     execStart |-> -1, result |-> NoResult, outcome |-> <<>>]

\* no method of cache_manager called yet: op is the method, key and value its
\* arguments, returned what it returned, before the cache it found
NoCall == [op |-> "none", key |-> "", value |-> "", returned |-> <<>>, before |-> EmptyCache]

\* what the process_query of the main loop never touches
aside == <<keyVars, thread, call, text, routed>>
AsideIdle ==
    /\ KeyIdle
    /\ thread = [t \in Threads |-> IdleThread]
    /\ call = NoCall
    /\ text = ""
    /\ routed = <<>>

\* process_query is not running and has never run
ProcessIdle ==
    /\ now = 0
    /\ cache = EmptyCache
    /\ alarm = NoAlarm
    /\ pc = "idle"
    /\ query = ""
    /\ start_time = 0
    /\ analysis = NoAnalysis
    /\ route = ""
    /\ result = NoResult
    /\ exc = ""
    /\ outer_exc = ""
    /\ returned = <<>>
    /\ escaped = "none"
    /\ ncalls = 0
    /\ nticks = 0
    /\ execState = "none"
    /\ execStart = -1
    /\ invoked = <<>>
    /\ produced = <<>>
    /\ classified = 0
    /\ cacheWrites = 0
    /\ atSubmit = <<>>
    /\ cleared = {}

Init ==
    /\ has_SIGALRM \in BOOLEAN
    /\ ProcessIdle
    /\ AsideIdle

\* return: the Outcome is in the hands of process_and_display_query
Return(out) ==
    /\ pc' = "returned"
    /\ returned' = out

\* main_loop reads a query and calls process_query (line 413)
Submit(q) ==
    /\ pc = "idle"
    /\ ncalls < MaxCalls
    /\ ncalls' = ncalls + 1
    /\ pc' = "entry"
    /\ query' = q
    /\ atSubmit' = IF KeyOf[q] \in DOMAIN cache THEN <<cache[KeyOf[q]]>> ELSE <<>>
    /\ UNCHANGED <<has_SIGALRM, aside, cleared, now, cache, alarm, start_time, analysis, route,
                   result, exc, outer_exc, returned, escaped, nticks, execState, execStart,
                   invoked, produced, classified, cacheWrites>>

\* lines 220-225: start_time is taken, the outer try is entered
Enter ==
    /\ pc = "entry"
    /\ start_time' = now
    /\ pc' = "check"
    /\ UNCHANGED <<has_SIGALRM, aside, cleared, now, cache, alarm, query, analysis, route,
                   result, exc, outer_exc, returned, escaped, ncalls, nticks, ghosts>>

\* process_and_display_query (lines 411-446) prints the Outcome; the call's
\* locals are gone when main_loop reads the next line
Display ==
    /\ pc = "returned"
    /\ pc' = "idle"
    /\ query' = ""
    /\ start_time' = 0
    /\ analysis' = NoAnalysis
    /\ route' = ""
    /\ result' = NoResult
    /\ exc' = ""
    /\ outer_exc' = ""
    /\ returned' = <<>>
    /\ execState' = "none"
    /\ execStart' = -1
    /\ invoked' = <<>>
    /\ produced' = <<>>
    /\ classified' = 0
    /\ cacheWrites' = 0
    /\ atSubmit' = <<>>
    /\ cleared' = cleared \ {KeyOf[query]}
    /\ call' = NoCall
    /\ UNCHANGED <<has_SIGALRM, keyVars, thread, text, routed, now, cache, alarm, escaped,
                   ncalls, nticks>>

\* lines 226-233
CacheCheck ==
    /\ pc = "check"
    /\ LET got == CacheGet(cache, KeyOf[query], now)
       IN  /\ cache' = got.cache
           /\ call' = [NoCall EXCEPT !.op = "get", !.key = KeyOf[query],
                                     !.returned = got.value, !.before = cache]
           /\ IF got.value # <<>>
              THEN Return(got.value)
              ELSE /\ pc' = "classify"
                   /\ UNCHANGED returned
    /\ UNCHANGED <<has_SIGALRM, keyVars, thread, text, routed, cleared, now, alarm, locals,
                   escaped, ncalls, nticks, ghosts>>

\* lines 236-255
Classify ==
    /\ pc = "classify"
    /\ analysis' = AnalysisOf[query]
    /\ route' = RouteOf[query]
    /\ classified' = classified + 1
    /\ pc' = "try"
    /\ UNCHANGED <<has_SIGALRM, aside, cleared, now, cache, alarm, query, start_time, result,
                   exc, outer_exc, returned, escaped, ncalls, nticks, execState, execStart,
                   invoked, produced, cacheWrites, atSubmit>>

\* lines 256-276: arm the alarm, invoke the executor of the route
Arm ==
    /\ pc = "try"
    /\ alarm' = IF has_SIGALRM THEN now + AGENT_TIMEOUT + AlarmMargin ELSE alarm
    /\ invoked' = Append(invoked, ExecutorFor(route))
    /\ execState' = "Running"
    /\ execStart' = now
    /\ pc' = "execute"
    /\ UNCHANGED <<has_SIGALRM, aside, cleared, now, cache, locals, returned, escaped, ncalls,
                   nticks, produced, classified, cacheWrites, atSubmit>>

\* the executor's invoke returns
HandlerReturn(r) ==
    /\ pc = "execute"
    /\ result' = r
    /\ produced' = Append(produced, r)
    /\ pc' = "disarm"
    /\ UNCHANGED <<has_SIGALRM, aside, cleared, now, cache, alarm, query, start_time, analysis,
                   route, exc, outer_exc, returned, escaped, ncalls, nticks, execState,
                   execStart, invoked, classified, cacheWrites, atSubmit>>

\* the executor's invoke raises
HandlerRaise(e) ==
    /\ pc = "execute"
    /\ exc' = e
    /\ pc' = "except_error"
    /\ UNCHANGED <<has_SIGALRM, aside, cleared, now, cache, alarm, query, start_time, analysis,
                   route, result, outer_exc, returned, escaped, ncalls, nticks, ghosts>>

\* lines 278-282
Disarm ==
    /\ pc = "disarm"
    /\ alarm' = IF has_SIGALRM THEN NoAlarm ELSE alarm
    /\ execState' = "Completed"
    /\ pc' = "finalize"
    /\ UNCHANGED <<has_SIGALRM, aside, cleared, now, cache, locals, returned, escaped, ncalls,
                   nticks, execStart, invoked, produced, classified, cacheWrites, atSubmit>>

ExceptTimeoutKeepsResult ==
    /\ pc = "except_timeout"
    /\ result' = IF produced # <<>> THEN result ELSE TimeoutResult(query)
    /\ execState' = "TimedOut"
    /\ pc' = "finalize"
    /\ UNCHANGED <<has_SIGALRM, aside, cleared, now, cache, alarm, query, start_time, analysis,
                   route, exc, outer_exc, returned, escaped, ncalls, nticks, execStart, invoked,
                   produced, classified, cacheWrites, atSubmit>>

ExceptTimeoutRetries ==
    /\ pc = "except_timeout"
    /\ result' = TimeoutResult(query)
    /\ execState' = "TimedOut"
    /\ pc' = "try"
    /\ UNCHANGED <<has_SIGALRM, aside, cleared, now, cache, alarm, query, start_time, analysis,
                   route, exc, outer_exc, returned, escaped, ncalls, nticks, execStart, invoked,
                   produced, classified, cacheWrites, atSubmit>>

\* lines 284-286
ExceptTimeout ==
    /\ pc = "except_timeout"
    /\ result' = TimeoutResult(query)
    /\ execState' = "TimedOut"
    /\ pc' = "finalize"
    /\ UNCHANGED <<has_SIGALRM, aside, cleared, now, cache, alarm, query, start_time, analysis,
                   route, exc, outer_exc, returned, escaped, ncalls, nticks, execStart, invoked,
                   produced, classified, cacheWrites, atSubmit>>

\* lines 288-291
ExceptError ==
    /\ pc = "except_error"
    /\ result' = ErrorResult(query, exc)
    /\ execState' = "Failed"
    /\ pc' = "finalize"
    /\ UNCHANGED <<has_SIGALRM, aside, cleared, now, cache, alarm, query, start_time, analysis,
                   route, exc, outer_exc, returned, escaped, ncalls, nticks, execStart, invoked,
                   produced, classified, cacheWrites, atSubmit>>

\* lines 293-316; result.get raises AttributeError when result is no dict
Finalize ==
    /\ pc = "finalize"
    /\ IF result.kind # "dict"
       THEN /\ outer_exc' = AttributeErrorMessage
            /\ pc' = "outer_except"
            /\ UNCHANGED <<cache, returned, cacheWrites>>
       ELSE LET processing_time == now - start_time
                final_result == FinalResult(result, route, query, analysis, processing_time, now)
            IN  /\ IF Cacheable(processing_time)
                   THEN /\ cache' = CacheSet(cache, KeyOf[query], final_result, now)
                        /\ cacheWrites' = cacheWrites + 1
                   ELSE UNCHANGED <<cache, cacheWrites>>
                /\ Return(<<final_result>>)
                /\ UNCHANGED outer_exc
    /\ UNCHANGED <<has_SIGALRM, aside, cleared, now, alarm, query, start_time, analysis, route,
                   result, exc, escaped, ncalls, nticks, execState, execStart, invoked,
                   produced, classified, atSubmit>>

\* lines 318-331
OuterExcept ==
    /\ pc = "outer_except"
    /\ Return(<<ErrorOutcome(outer_exc, query, now - start_time, now)>>)
    /\ UNCHANGED <<has_SIGALRM, aside, cleared, now, cache, alarm, locals, escaped, ncalls,
                   nticks, ghosts>>

RaiseAtNarrowTry(p, swallowed) ==
    CASE p \in {"idle", "returned"} -> p
      [] p \in {"entry", "check", "outer_except"} -> "escape"
      [] p \in {"classify", "finalize"} -> "outer_except"
      [] p \in {"try", "disarm"} -> "except_timeout"
      [] p = "execute" -> IF swallowed THEN "execute" ELSE "except_timeout"
      [] p \in {"except_timeout", "except_error"} -> "outer_except"

\* Where the main thread goes when TimeoutException is raised at position p.
\* Lines 220-224 and the handler at lines 319-331 are covered by no try of
\* process_query: the exception leaves it ("escape") and is caught by
\* main_loop (line 407), as it is when raised in main_loop itself.  Inside an
\* executor it propagates to line 284, unless an except Exception of the tool
\* that is running catches it (tools.py lines 46-47) and the executor goes on.
RaiseAt(p, swallowed) ==
    CASE p \in {"idle", "returned"} -> p
      [] p \in {"entry", "outer_except"} -> "escape"
      [] p \in {"check", "classify", "finalize"} -> "outer_except"
      [] p \in {"try", "disarm"} -> "except_timeout"
      [] p = "execute" -> IF swallowed THEN "execute" ELSE "except_timeout"
      [] p \in {"except_timeout", "except_error"} -> "outer_except"

\* timeout_handler (lines 60-62) runs in the main thread when the alarm is due
AlarmFires ==
    /\ alarm # NoAlarm
    /\ now >= alarm
    /\ alarm' = NoAlarm
    /\ \E swallowed \in BOOLEAN :
        /\ swallowed => pc = "execute"
        /\ LET target == RaiseAt(pc, swallowed)
           IN  /\ pc' = IF target = "escape" THEN "idle" ELSE target
               /\ escaped' = IF target = "escape" THEN pc ELSE escaped
               /\ outer_exc' = IF target = "outer_except" THEN TimeoutMessage ELSE outer_exc
    /\ UNCHANGED <<has_SIGALRM, aside, cleared, now, cache, query, start_time, analysis, route,
                   result, exc, returned, ncalls, nticks, ghosts>>

\* 'cache clear' typed in main_loop; CacheManager.clear
CacheClear ==
    /\ pc = "idle"
    /\ cache # EmptyCache
    /\ cache' = EmptyCache
    /\ cleared' = cleared \cup DOMAIN cache
    /\ UNCHANGED <<has_SIGALRM, aside, now, alarm, pc, locals, returned, escaped, ncalls,
                   nticks, ghosts>>

\* time passes while the user is typing or an executor is running; a pending
\* alarm is delivered when it is due
Tick(d) ==
    /\ pc \in {"idle", "execute"}
    /\ nticks < MaxTicks
    /\ alarm # NoAlarm => now + d <= alarm
    /\ now' = now + d
    /\ nticks' = nticks + 1
    /\ UNCHANGED <<has_SIGALRM, aside, cleared, cache, alarm, pc, locals, returned, escaped,
                   ncalls, ghosts>>

Next ==
    \/ \E q \in Queries : Submit(q)
    \/ Enter
    \/ CacheCheck
    \/ Classify
    \/ Arm
    \/ \E r \in HandlerResults : HandlerReturn(r)
    \/ \E e \in HandlerErrors : HandlerRaise(e)
    \/ Disarm
    \/ ExceptTimeout
    \/ ExceptError
    \/ Finalize
    \/ OuterExcept
    \/ Display
    \/ AlarmFires
    \/ CacheClear
    \/ \E d \in TimeSteps : Tick(d)

Spec == Init /\ [][Next]_vars

(***************************************************************************)
(* CollisionSpec: process_query called on two queries whose cache keys are *)
(* equal                                                                   *)
(***************************************************************************)
CollisionNext ==
    \/ \E q \in CollidingQueries : Submit(q)
    \/ Enter
    \/ CacheCheck
    \/ Classify
    \/ Arm
    \/ \E r \in HandlerResults : HandlerReturn(r)
    \/ \E e \in HandlerErrors : HandlerRaise(e)
    \/ Disarm
    \/ ExceptTimeout
    \/ ExceptError
    \/ Finalize
    \/ OuterExcept
    \/ Display
    \/ AlarmFires
    \/ CacheClear
    \/ \E d \in TimeSteps : Tick(d)

CollisionSpec == Init /\ [][CollisionNext]_vars

(***************************************************************************)
(* generate_cache_key (utils.py) called on a query and on the texts that   *)
(* differ from it in letter case and in whitespace only                    *)
(***************************************************************************)
\* everything process_query works on
process == <<has_SIGALRM, now, cache, alarm, pc, locals, returned, escaped, ncalls, nticks,
             ghosts, cleared>>

\* the agent_type and query arguments of the calls
AgentTypes == {"system", "research"}

\* longest text given to generate_cache_key
MaxQueryLen == 7

\* str.swapcase of one character
SwapCaseChar(c) ==
    IF c \in CharsOf(UpperAlpha) THEN LowerChar(c)
    ELSE IF c \in CharsOf(LowerAlpha)
         THEN CharAt(UpperAlpha, CHOOSE i \in 1..Len(LowerAlpha) : CharAt(LowerAlpha, i) = c)
         ELSE c

\* s[:i-1] + c + s[i-1+n:]
Splice(s, i, n, c) == SubSeq(s, 1, i - 1) \o c \o SubSeq(s, i + n, Len(s))

SpaceAt(s, i) == i >= 1 /\ i <= Len(s) /\ IsSpace(CharAt(s, i))

\* position i of s lies in a whitespace run or at an end of s
AtWhitespace(s, i) ==
    \/ i = 1
    \/ i = Len(s) + 1
    \/ SpaceAt(s, i - 1)
    \/ SpaceAt(s, i)

\* the whitespace at position i of s is not all that separates two words
Spare(s, i) ==
    /\ SpaceAt(s, i)
    /\ \/ i = 1
       \/ i = Len(s)
       \/ SpaceAt(s, i - 1)
       \/ SpaceAt(s, i + 1)

KeyInit ==
    /\ has_SIGALRM = TRUE
    /\ ProcessIdle
    /\ thread = [t \in Threads |-> IdleThread]
    /\ call = NoCall
    /\ text = ""
    /\ routed = <<>>
    /\ agent_type \in AgentTypes
    /\ base_query \in BaseQueries
    /\ variant_query = base_query
    /\ base_key = generate_cache_key(agent_type, base_query)
    /\ variant_key = base_key

\* generate_cache_key(agent_type, q)
KeyOfVariant(q) ==
    /\ variant_query' = q
    /\ variant_key' = generate_cache_key(agent_type, q)
    /\ UNCHANGED <<agent_type, base_query, base_key, thread, call, text, routed, process>>

\* the letter at position i in the other case
SwapCase(i) ==
    /\ SwapCaseChar(CharAt(variant_query, i)) # CharAt(variant_query, i)
    /\ KeyOfVariant(Splice(variant_query, i, 1, SwapCaseChar(CharAt(variant_query, i))))

\* one more whitespace character at an end or in a whitespace run
AddSpace(i, c) ==
    /\ Len(variant_query) < MaxQueryLen
    /\ AtWhitespace(variant_query, i)
    /\ KeyOfVariant(Splice(variant_query, i, 0, c))

\* one whitespace character less at an end or in a longer whitespace run
DropSpace(i) ==
    /\ Spare(variant_query, i)
    /\ KeyOfVariant(Splice(variant_query, i, 1, ""))

KeyNext ==
    \/ \E i \in 1..Len(variant_query) : SwapCase(i)
    \/ \E i \in 1..(Len(variant_query) + 1), c \in {" ", "\t"} : AddSpace(i, c)
    \/ \E i \in 1..Len(variant_query) : DropSpace(i)

KeySpec == KeyInit /\ [][KeyNext]_vars

(***************************************************************************)
(* process_query called from several threads on the one cache_manager and  *)
(* the one process-wide alarm.  No lock is taken anywhere: a thread may be *)
(* preempted between any two lines of CacheManager.get.                    *)
(***************************************************************************)
\* the state of the call made by main_loop in Spec
mainLoop == <<pc, locals, returned, escaped, ghosts, cleared>>

\* str(e) of the KeyError of lines 290 and 297 of utils.py, and of the
\* ValueError signal.signal raises outside the main thread
KeyErrorMessage == "KeyError"
ValueErrorMessage == "signal only works in main thread of the main interpreter"

\* the queries the threads submit
ThreadQueries == {"plot pib", "xyz"}

ThreadInit ==
    /\ has_SIGALRM \in BOOLEAN
    /\ ProcessIdle
    /\ AsideIdle

\* thread t goes on as record r says; nothing else changes but the shared state
Goes(t, r) ==
    /\ thread' = [thread EXCEPT ![t] = r]
    /\ UNCHANGED <<has_SIGALRM, keyVars, call, text, routed, mainLoop>>

\* the exception e reaches line 318 in thread t: lines 325-331
Fails(t, e) ==
    [thread[t] EXCEPT
        !.pc = "done",
        !.outcome = <<ErrorOutcome(e, thread[t].query, now - thread[t].start_time, now)>>]

\* lines 218-228 of main_cli.py
Call(t, q) ==
    /\ thread[t].pc = "idle"
    /\ ncalls < MaxCalls
    /\ ncalls' = ncalls + 1
    /\ Goes(t, [IdleThread EXCEPT !.pc = "get", !.query = q, !.start_time = now])
    /\ UNCHANGED <<now, cache, alarm, nticks>>

\* utils.py line 289: if key in self.cache
GetIn(t) ==
    /\ thread[t].pc = "get"
    /\ Goes(t, [thread[t] EXCEPT
                  !.pc = IF KeyOf[thread[t].query] \in DOMAIN cache THEN "get_read" ELSE "arm"])
    /\ UNCHANGED <<now, cache, alarm, ncalls, nticks>>

\* utils.py line 290: data, timestamp = self.cache[key]
GetRead(t) ==
    /\ thread[t].pc = "get_read"
    /\ LET key == KeyOf[thread[t].query]
       IN  IF key \in DOMAIN cache
           THEN Goes(t, [thread[t] EXCEPT !.pc = "get_fresh", !.seen = <<cache[key]>>])
           ELSE Goes(t, Fails(t, KeyErrorMessage))
    /\ UNCHANGED <<now, cache, alarm, ncalls, nticks>>

\* utils.py lines 292-295, main_cli.py lines 230-233
GetFresh(t) ==
    /\ thread[t].pc = "get_fresh"
    /\ IF Fresh(thread[t].seen[1], now)
       THEN Goes(t, [thread[t] EXCEPT !.pc = "done", !.outcome = <<thread[t].seen[1].data>>])
       ELSE Goes(t, [thread[t] EXCEPT !.pc = "get_del"])
    /\ UNCHANGED <<now, cache, alarm, ncalls, nticks>>

\* utils.py line 297: del self.cache[key]
GetDel(t) ==
    /\ thread[t].pc = "get_del"
    /\ LET key == KeyOf[thread[t].query]
       IN  IF key \in DOMAIN cache
           THEN /\ cache' = [k \in DOMAIN cache \ {key} |-> cache[k]]
                /\ Goes(t, [thread[t] EXCEPT !.pc = "arm", !.dropped = <<cache[key]>>])
           ELSE /\ Goes(t, Fails(t, KeyErrorMessage))
                /\ UNCHANGED cache
    /\ UNCHANGED <<now, alarm, ncalls, nticks>>

\* main_cli.py lines 236-276: signal.signal raises ValueError in a thread that
\* is not the main one, and line 288 catches it
ThreadArm(t) ==
    /\ thread[t].pc = "arm"
    /\ IF has_SIGALRM /\ t # "MainThread"
       THEN /\ Goes(t, [thread[t] EXCEPT
                          !.pc = "finalize",
                          !.result = ErrorResult(thread[t].query, ValueErrorMessage)])
            /\ UNCHANGED alarm
       ELSE /\ Goes(t, [thread[t] EXCEPT !.pc = "execute", !.execStart = now])
            /\ alarm' = IF has_SIGALRM THEN now + AGENT_TIMEOUT + AlarmMargin ELSE alarm
    /\ UNCHANGED <<now, cache, ncalls, nticks>>

\* the executor's invoke returns in thread t; lines 278-282
ThreadReturn(t, r) ==
    /\ thread[t].pc = "execute"
    /\ Goes(t, [thread[t] EXCEPT !.pc = "finalize", !.result = r])
    /\ alarm' = IF has_SIGALRM THEN NoAlarm ELSE alarm
    /\ UNCHANGED <<now, cache, ncalls, nticks>>

\* main_cli.py lines 293-316
ThreadFinalize(t) ==
    /\ thread[t].pc = "finalize"
    /\ LET q == thread[t].query
           processing_time == now - thread[t].start_time
           final_result == FinalResult(thread[t].result, RouteOf[q], q, AnalysisOf[q],
                                       processing_time, now)
       IN  IF thread[t].result.kind # "dict"
           THEN /\ Goes(t, Fails(t, AttributeErrorMessage))
                /\ UNCHANGED cache
           ELSE /\ cache' = IF Cacheable(processing_time)
                            THEN CacheSet(cache, KeyOf[q], final_result, now)
                            ELSE cache
                /\ Goes(t, [thread[t] EXCEPT !.pc = "done", !.outcome = <<final_result>>])
    /\ UNCHANGED <<now, alarm, ncalls, nticks>>

\* timeout_handler (lines 60-62) raises TimeoutException in the main thread,
\* wherever that thread is
ThreadAlarm ==
    /\ alarm # NoAlarm
    /\ now >= alarm
    /\ alarm' = NoAlarm
    /\ LET t == "MainThread"
           at == thread[t].pc
       IN  IF at \in {"arm", "execute"}
           THEN Goes(t, [thread[t] EXCEPT !.pc = "finalize",
                                          !.result = TimeoutResult(thread[t].query)])
           ELSE IF at \in {"get", "get_read", "get_fresh", "get_del", "finalize"}
           THEN Goes(t, Fails(t, TimeoutMessage))
           ELSE Goes(t, thread[t])
    /\ UNCHANGED <<now, cache, ncalls, nticks>>

\* the caller of thread t has the Outcome
ThreadDone(t) ==
    /\ thread[t].pc = "done"
    /\ Goes(t, IdleThread)
    /\ UNCHANGED <<now, cache, alarm, ncalls, nticks>>

\* time passes while an executor is running or no call is being made
ThreadTick(d) ==
    /\ \/ \E t \in Threads : thread[t].pc = "execute"
       \/ \A t \in Threads : thread[t].pc = "idle"
    /\ nticks < MaxTicks
    /\ alarm # NoAlarm => now + d <= alarm
    /\ now' = now + d
    /\ nticks' = nticks + 1
    /\ UNCHANGED <<has_SIGALRM, cache, alarm, ncalls, aside, mainLoop>>

ThreadNext ==
    \/ \E t \in Threads, q \in ThreadQueries : Call(t, q)
    \/ \E t \in Threads : GetIn(t)
    \/ \E t \in Threads : GetRead(t)
    \/ \E t \in Threads : GetFresh(t)
    \/ \E t \in Threads : GetDel(t)
    \/ \E t \in Threads : ThreadArm(t)
    \/ \E t \in Threads, r \in HandlerResults : ThreadReturn(t, r)
    \/ \E t \in Threads : ThreadFinalize(t)
    \/ ThreadAlarm
    \/ \E t \in Threads : ThreadDone(t)
    \/ \E d \in TimeSteps : ThreadTick(d)

ThreadSpec == ThreadInit /\ [][ThreadNext]_vars

(***************************************************************************)
(* CacheManager (utils.py) in the hands of any caller: get, set and clear  *)
(* in any order as time passes                                             *)
(***************************************************************************)
\* the keys and values the callers use
CallKeys == {KeyOf[q] : q \in ThreadQueries}
CallValues == {"v1", "v2"}

CacheInit ==
    /\ has_SIGALRM = TRUE
    /\ ProcessIdle
    /\ AsideIdle

\* the call c has been made; the cache and the clock apart, nothing else changes
Called(c) ==
    /\ call' = [c EXCEPT !.before = cache]
    /\ UNCHANGED <<has_SIGALRM, alarm, ncalls, keyVars, thread, text, routed, mainLoop>>

\* cache_manager.get(key)
Get(key) ==
    LET got == CacheGet(cache, key, now)
    IN  /\ cache' = got.cache
        /\ Called([NoCall EXCEPT !.op = "get", !.key = key, !.returned = got.value])
        /\ UNCHANGED <<now, nticks>>

\* cache_manager.set(key, value)
Set(key, value) ==
    /\ cache' = CacheSet(cache, key, value, now)
    /\ Called([NoCall EXCEPT !.op = "set", !.key = key, !.value = value])
    /\ UNCHANGED <<now, nticks>>

\* cache_manager.clear()
Clear ==
    /\ cache' = EmptyCache
    /\ Called([NoCall EXCEPT !.op = "clear"])
    /\ UNCHANGED <<now, nticks>>

\* time passes between two calls; nothing runs in the background
Wait(d) ==
    /\ nticks < MaxTicks
    /\ now' = now + d
    /\ nticks' = nticks + 1
    /\ Called([NoCall EXCEPT !.op = "wait"])
    /\ UNCHANGED cache

CacheNext ==
    \/ \E key \in CallKeys : Get(key)
    \/ \E key \in CallKeys, value \in CallValues : Set(key, value)
    \/ Clear
    \/ \E d \in TimeSteps : Wait(d)

CacheSpec == CacheInit /\ [][CacheNext]_vars

(***************************************************************************)
(* _route_query (main_cli.py) called on queries made of a few words        *)
(***************************************************************************)
\* the words the queries are made of, and how many a query has at most
Vocabulary == {"Clima", "temporada", "Gráfico", "plot", "PIB", "dados", "olá"}
MaxWords == 3

RouteInit ==
    /\ has_SIGALRM = TRUE
    /\ ProcessIdle
    /\ AsideIdle

\* self._route_query(q)
Route(q) ==
    /\ text' = q
    /\ routed' = <<_route_query(q)>>
    /\ UNCHANGED <<keyVars, thread, call, process>>

\* the query with one more word
RouteLonger(w) ==
    /\ Cardinality({i \in 1..Len(text) : IsSpace(CharAt(text, i))}) < MaxWords - 1
    /\ Route(IF text = "" THEN w ELSE text \o " " \o w)

RouteNext == \E w \in Vocabulary : RouteLonger(w)

RouteSpec == RouteInit /\ [][RouteNext]_vars

(***************************************************************************)
(* AnalyzeSpec: analyze_query (utils.py) called on queries made of a few   *)
(* words                                                                   *)
(***************************************************************************)
\* the words the queries are made of: one or two per intent, one that no
\* pattern matches and one that only starts like a pattern's alternative
AnalyzeVocabulary == {"Clima", "Gráfico", "PIB", "dados", "do", "temporada"}

AnalyzeInit ==
    /\ has_SIGALRM = TRUE
    /\ ProcessIdle
    /\ AsideIdle

\* analysis = query_analyzer.analyze_query(q)
Analyze(q) ==
    /\ text' = q
    /\ analysis' = analyze_query(q)
    /\ UNCHANGED <<has_SIGALRM, now, cache, alarm, pc, query, start_time, route, result, exc,
                   outer_exc, returned, escaped, ncalls, nticks, ghosts, cleared, keyVars,
                   thread, call, routed>>

\* the query with one more word
AnalyzeLonger(w) ==
    /\ Cardinality({i \in 1..Len(text) : IsSpace(CharAt(text, i))}) < MaxWords - 1
    /\ Analyze(IF text = "" THEN w ELSE text \o " " \o w)

AnalyzeNext == \E w \in AnalyzeVocabulary : AnalyzeLonger(w)

AnalyzeSpec == AnalyzeInit /\ [][AnalyzeNext]_vars

(***************************************************************************)
(* Properties                                                              *)
(***************************************************************************)
Returned == pc = "returned" /\ returned # <<>>

Outcome == returned[1]

\* two or more intents hold the maximal score of the query
Tied(q) == Cardinality({i \in Intents : IntentScore(i, q) = MaxScore(q)}) >= 2

\* no pattern of any intent matches the query
NoMatch(q) == TotalScore(q) = 0

TiedOf == Tabulate(Tied, Queries)
NoMatchOf == Tabulate(NoMatch, Queries)

\* C1: from the moment Execute begins, process_query is back with an Outcome
\* no later than AGENT_TIMEOUT + 5 seconds after, whatever the executor does
C1_ReturnsWithinDeadline ==
    (execStart >= 0 /\ pc \notin {"idle", "returned"})
        => now - execStart <= AGENT_TIMEOUT + AlarmMargin

\* C2: a call whose executor raised (Execute state Failed) writes nothing to
\* the cache
C2_FailedNeverCached ==
    execState = "Failed" => cacheWrites = 0

C4_FailureIsReported ==
    (Returned /\ execState \in {"Failed", "TimedOut"})
        => /\ Outcome.success = FALSE
           /\ "error" \in DOMAIN Outcome
           /\ Outcome.error # ""

\* C5 as claimed: the executor that runs, and agent_used of the Outcome, is the
\* one of the intent analyze_query returned for the query
C5_HandlerIsIntent ==
    invoked # <<>>
        => /\ invoked = <<analysis.intent \o "_executor">>
           /\ (Returned /\ Outcome.success) => Outcome.agent_used = analysis.intent

\* C5 as amended: the executor that runs, and agent_used of the Outcome, is the
\* one _route_query picks from the keywords of the query; the intent of
\* analyze_query is reported in the Outcome and decides nothing
C5_HandlerIsRoute ==
    invoked # <<>>
        => /\ invoked = <<RouteOf[query] \o "_executor">>
           /\ (Returned /\ Outcome.success)
                => /\ Outcome.agent_used = RouteOf[query]
                   /\ Outcome.analysis = AnalysisOf[query]

C5_Witness ==
    /\ Returned
    /\ Outcome.success
    /\ invoked = <<"chart_executor">>
    /\ Outcome.agent_used = "chart"
    /\ Outcome.analysis.intent = "research"

\* C6: when two or more intents tie for the maximal score, the all-zero tie
\* included, analyze_query returns research; with no match the confidence is 0
C6_TieIsResearch ==
    (classified > 0 /\ TiedOf[query])
        => /\ analysis.intent = "research"
           /\ NoMatchOf[query] => analysis.confidence = <<0, 1>>

\* C7: a call that finds, under its key, a fresh entry stored by a call that
\* completed returns that entry's content and agent_used, and runs neither
\* analyze_query nor an executor
C7_CacheIdempotence ==
    (/\ pc = "returned"
     /\ atSubmit # <<>>
     /\ Fresh(atSubmit[1], now)
     /\ atSubmit[1].data.content = [text |-> "answer"])
        => /\ returned # <<>>
           /\ "content" \in DOMAIN Outcome
           /\ Outcome.content = atSubmit[1].data.content
           /\ Outcome.agent_used = atSubmit[1].data.agent_used
           /\ classified = 0
           /\ invoked = <<>>

\* C8: get returns the stored value at every time before timestamp + ttl and
\* None from timestamp + ttl on, when it also deletes the entry; no value older
\* than ttl is ever returned
C8_CacheTtl ==
    /\ (Returned /\ classified = 0 /\ outer_exc = "")
            => /\ atSubmit # <<>>
               /\ Outcome = atSubmit[1].data
               /\ now - atSubmit[1].timestamp < TTL
    /\ (pc = "classify" /\ atSubmit # <<>>)
            => /\ now - atSubmit[1].timestamp >= TTL
               /\ KeyOf[query] \notin DOMAIN cache

C8_Witness ==
    /\ pc = "classify"
    /\ atSubmit # <<>>
    /\ now - atSubmit[1].timestamp = TTL

\* C9: an exception raised between the cache check and the end of Finalize
\* never leaves process_query; the call returns an Outcome with
\* success = false that carries the text of the exception
C9_NoEscape ==
    /\ escaped \in {"none", "entry"}
    /\ pc = "outer_except" => outer_exc # ""
    /\ (pc = "returned" /\ outer_exc # "")
            => /\ returned # <<>>
               /\ Outcome.success = FALSE
               /\ Outcome.error = outer_exc
               /\ Outcome.query = query

C9_Witness ==
    /\ Returned
    /\ outer_exc = AttributeErrorMessage
    /\ Outcome.success = FALSE

\* C10: once a call is TimedOut, what its executor returned is dropped: the
\* one Outcome of the call is the timeout Outcome, and nothing else is written
\* to the cache by the call
C10_LateResultIgnored ==
    execState = "TimedOut"
        => /\ result = TimeoutResult(query)
           /\ Len(returned) <= 1
           /\ Returned => /\ "content" \in DOMAIN Outcome
                          /\ Outcome.content = TimeoutText(query)
           /\ cacheWrites > 0 => /\ cacheWrites = 1
                                 /\ KeyOf[query] \in DOMAIN cache
                                 /\ cache[KeyOf[query]].data.content = TimeoutText(query)

C10_Witness ==
    /\ Returned
    /\ execState = "TimedOut"
    /\ produced # <<>>

\* C11: generate_cache_key gives one key to a query and to every text that
\* differs from it only in the case of letters, in whitespace at the ends and
\* in the length of the whitespace runs between words; so it does for the
\* pair "  PIB   São Paulo " and "pib são paulo"
C11_SameKeyUpToCaseAndSpace ==
    /\ variant_key = base_key
    /\ generate_cache_key("system", "  PIB   São Paulo ")
         = generate_cache_key("system", "pib são paulo")

C11_Witness ==
    /\ base_query = " Sã  x"
    /\ variant_query = "sÃ \t X "
    /\ variant_key = generate_cache_key(agent_type, base_query)

\* C12: the Outcome a call of process_query returns, success or failure,
\* served from the cache or not, carries in its query field the query the
\* call was given
C12_OutcomeCarriesQuery == Returned => Outcome.query = query

\* C13: with calls of process_query running at once on the shared cache, get
\* and set are atomic on a key: the entry a get deletes is expired, never a
\* fresh one a set of another call has just written; no get fails because
\* another get on the same expired key ran at the same time; and the entry a
\* get reads is a whole (value, timestamp) pair
C13_AtomicGetAndSet ==
    \A t \in Threads :
        /\ thread[t].dropped # <<>> => ~Fresh(thread[t].dropped[1], now)
        /\ thread[t].outcome # <<>> =>
              (thread[t].outcome[1].success \/ thread[t].outcome[1].error # KeyErrorMessage)
        /\ thread[t].seen # <<>> => DOMAIN thread[t].seen[1] = {"data", "timestamp"}

\* C14: when more than one call is in Execute, each of them is bounded by a
\* deadline counted from the start of its own Execute, and where the alarm
\* exists the pending one is that deadline, whatever the other calls armed
\* or disarmed
C14_DeadlinePerCall ==
    LET Executing == {t \in Threads : thread[t].pc = "execute"}
    IN  Cardinality(Executing) > 1 =>
            \A t \in Executing :
                /\ now - thread[t].execStart <= AGENT_TIMEOUT + AlarmMargin
                /\ has_SIGALRM => alarm = thread[t].execStart + AGENT_TIMEOUT + AlarmMargin

\* C15: every entry in the cache, after any calls of process_query, holds an
\* Outcome with success = TRUE whose processing_time is strictly below
\* AGENT_TIMEOUT
C15_CachedAreFastSuccesses ==
    \A k \in DOMAIN cache :
        /\ cache[k].data.success
        /\ cache[k].data.processing_time < AGENT_TIMEOUT

C15_Witness ==
    /\ Returned
    /\ Outcome.success
    /\ Outcome.processing_time = AGENT_TIMEOUT
    /\ KeyOf[query] \notin DOMAIN cache
    /\ cache # EmptyCache

\* C16: the agent_used of every successful Outcome is research, chart or
\* weather; the executor Execute invokes is the one registered under that
\* very name; and no route is in Execute without an executor invoked for it
C16_RouteHasItsHandler ==
    /\ (Returned /\ Outcome.success) =>
          /\ Outcome.agent_used \in {"research", "chart", "weather"}
          /\ \A i \in 1..Len(invoked) : invoked[i] = Outcome.agent_used \o "_executor"
    /\ pc = "execute" =>
          /\ route \in {"research", "chart", "weather"}
          /\ invoked = <<route \o "_executor">>

C16_Witness ==
    /\ Returned
    /\ Outcome.success
    /\ Outcome.agent_used = "weather"
    /\ invoked = <<"weather_executor">>
    /\ \E k \in DOMAIN cache : cache[k].data.agent_used = "chart"
    /\ \E k \in DOMAIN cache : cache[k].data.agent_used = "research"

\* C17: get on a key whose entry is present but expired removes the entry and
\* returns None; an entry leaves the map only through such a get or through
\* clear, never through set and never while time passes, so an expired entry
\* nobody reads stays in the map
C17_LazyEviction ==
    /\ (call.op = "get" /\ call.key \in DOMAIN call.before
            /\ ~Fresh(call.before[call.key], now)) =>
          (call.returned = <<>> /\ call.key \notin DOMAIN cache)
    /\ \A k \in DOMAIN call.before \ DOMAIN cache :
          \/ call.op = "clear"
          \/ call.op = "get" /\ call.key = k /\ ~Fresh(call.before[k], now)
    /\ call.op \in {"set", "wait"} => DOMAIN call.before \subseteq DOMAIN cache

C17_Witness ==
    /\ call.op = "get"
    /\ call.key \in DOMAIN call.before
    /\ ~Fresh(call.before[call.key], now)
    /\ call.returned = <<>>
    /\ \E k \in DOMAIN cache : ~Fresh(cache[k], now)

\* C18: set(key, value) replaces whatever entry the key has, fresh or expired
\* and whatever its value, by the new value stamped with the current time,
\* from which the ttl of the entry runs anew
C18_SetReplaces ==
    call.op = "set" =>
        /\ call.key \in DOMAIN cache
        /\ cache[call.key] = [data |-> call.value, timestamp |-> now]
        /\ Fresh(cache[call.key], now)
        /\ \A k \in DOMAIN call.before \ {call.key} :
              k \in DOMAIN cache /\ cache[k] = call.before[k]

C18_Witness ==
    /\ call.op = "set"
    /\ call.key \in DOMAIN call.before
    /\ Fresh(call.before[call.key], now)
    /\ call.before[call.key].data # call.value
    /\ call.before[call.key].timestamp < now
    /\ cache[call.key] = [data |-> call.value, timestamp |-> now]

\* C19: after 'cache clear' no key stored before has an entry until it is set
\* again, so get returns None for it; and the first call of process_query for
\* a query that was cached before the clear is a miss: it runs analyze_query
\* and the executor again before it returns
C19_ClearForgets ==
    /\ \A k \in cleared :
          k \in DOMAIN cache => (pc = "returned" /\ k = KeyOf[query] /\ cacheWrites = 1)
    /\ (Returned /\ KeyOf[query] \in cleared) =>
          /\ atSubmit = <<>>
          /\ classified = 1
          /\ invoked # <<>>

\* C20: _route_query sends a query that contains clima, tempo, temperatura,
\* chuva or meteorológico to weather; a query that contains gráfico, chart,
\* plotar, visualizar, plot or graph and none of the former to chart, even
\* when it also contains a research keyword such as pib; and every other
\* query to research
C20_RouteByKeyword ==
    LET has(words) == \E w \in words : Contains(Lower(text), w)
        weather == has({"clima", "tempo", "temperatura", "chuva", "meteorológico"})
        chart == has({"gráfico", "chart", "plotar", "visualizar", "plot", "graph"})
    IN  routed # <<>> =>
            /\ weather => routed = <<"weather">>
            /\ (chart /\ ~weather) => routed = <<"chart">>
            /\ (~chart /\ ~weather) => routed = <<"research">>

C20_Witness ==
    /\ text = "PIB Gráfico dados"
    /\ routed = <<"chart">>

\* C21: within one call of process_query an executor is invoked at most once;
\* after a timeout or a failure of the executor the call neither retries nor
\* turns to another executor: it goes on to build its Outcome and return
C21_HandlerInvokedOnce ==
    /\ Len(invoked) <= 1
    /\ execState \in {"TimedOut", "Failed"} =>
          pc \in {"finalize", "outer_except", "returned"}

C21_Witness ==
    /\ Returned
    /\ execState = "TimedOut"
    /\ Len(invoked) = 1
    /\ produced = <<>>

\* C22: a call takes its steps in the order cache check, classification,
\* route, Execute, Finalize: an executor is invoked only after the call's get
\* missed and its analyze_query and _route_query have run; and a call that
\* finds a fresh entry under its key returns the cached Outcome straight from
\* the cache check, with no classification, no route and no executor
C22_StepOrder ==
    /\ classified \in {0, 1}
    /\ pc \in {"try", "execute", "disarm", "except_timeout", "except_error"} => classified = 1
    /\ invoked # <<>> =>
          /\ atSubmit = <<>> \/ ~Fresh(atSubmit[1], start_time)
          /\ classified = 1
          /\ analysis = AnalysisOf[query]
          /\ route = RouteOf[query]
    /\ (Returned /\ atSubmit # <<>> /\ Fresh(atSubmit[1], start_time)) =>
          /\ Outcome = atSubmit[1].data
          /\ classified = 0
          /\ route = ""
          /\ invoked = <<>>

\* C23: an executor still running AGENT_TIMEOUT seconds after Execute began
\* makes the call TimedOut: no call is still in Execute later than that, and a
\* call that returns the executor's result as a Completed Outcome got that
\* result no later than AGENT_TIMEOUT seconds after Execute began
C23_TimedOutAtDeadline ==
    /\ pc = "execute" => now - execStart <= AGENT_TIMEOUT
    /\ (Returned /\ execState = "Completed") => now - execStart <= AGENT_TIMEOUT

\* the query of the state has been analysed
Analysed == text # "" /\ analysis # NoAnalysis

\* intent_scores of the query of the state
Scores ==
    [weather  |-> IntentScore("weather", text),
     chart    |-> IntentScore("chart", text),
     research |-> IntentScore("research", text)]

\* C24: when one intent scores strictly more than each of the other two,
\* analyze_query returns that intent (so a query that only weather patterns
\* match is classified weather)
C24_StrictMaxWins ==
    Analysed =>
        LET score == Scores
        IN  /\ analysis.intent \in Intents
            /\ \A i \in Intents :
                  (\A j \in Intents \ {i} : score[i] > score[j]) => analysis.intent = i
            /\ (score.weather > 0 /\ score.chart = 0 /\ score.research = 0)
                  => analysis.intent = "weather"

C24_Witness ==
    /\ Analysed
    /\ Scores = [weather |-> 1, chart |-> 0, research |-> 2]
    /\ analysis.intent = "research"

\* C25: analyze_query("Gráfico do PIB"), where chart and research score 1 each
\* and weather scores 0, returns the intent chart
C25_GraficoDoPibIsChart ==
    text = "Gráfico do PIB" =>
        /\ Scores = [weather |-> 0, chart |-> 1, research |-> 1]
        /\ analysis.intent = "chart"

C25_Witness ==
    /\ text = "Gráfico do PIB"
    /\ analysis = analyze_query("Gráfico do PIB")
    /\ analysis.intent = "chart"

\* C26: the confidence of analyze_query is max score / max(sum of scores, 1);
\* it lies between 0 and 1, is 0 exactly when no intent scores, and is 1
\* exactly when one intent alone has all the matches
C26_Confidence ==
    Analysed =>
        LET score == Scores
            top   == CHOOSE m \in {score[i] : i \in Intents} : \A i \in Intents : score[i] <= m
            sum   == score["weather"] + score["chart"] + score["research"]
            num   == analysis.confidence[1]
            den   == analysis.confidence[2]
        IN  /\ num = top
            /\ den = IF sum >= 1 THEN sum ELSE 1
            /\ 0 <= num /\ num <= den /\ den > 0
            /\ num = 0 <=> \A i \in Intents : score[i] = 0
            /\ num = den <=> \E i \in Intents :
                                /\ score[i] > 0
                                /\ \A j \in Intents \ {i} : score[j] = 0

C26_Witness ==
    /\ Analysed
    /\ analysis.confidence = <<2, 3>>

\* C27: when process_query has returned, on whichever path, the alarm the call
\* armed is no longer pending; so no alarm is pending between calls or at the
\* start of a later call
C27_NoAlarmLeftPending ==
    /\ (Returned /\ execStart >= 0) => alarm # execStart + AGENT_TIMEOUT + AlarmMargin
    /\ pc \in {"idle", "returned"} => alarm = NoAlarm

\* C28: a get that finds a fresh entry returns its data and leaves the whole
\* cache as it was, the entry's data and timestamp included, so the entry still
\* expires ttl after it was set however often it was read; and a call of
\* process_query answered from the cache writes nothing to the cache
C28_HitLeavesCacheAlone ==
    /\ (call.op = "get" /\ call.returned # <<>>) =>
          /\ call.key \in DOMAIN call.before
          /\ Fresh(call.before[call.key], start_time)
          /\ call.returned = <<call.before[call.key].data>>
          /\ pc = "returned" /\ cacheWrites = 0
          /\ cache = call.before
          /\ cache[call.key].timestamp = atSubmit[1].timestamp
    /\ (call.op = "get" /\ call.key \in DOMAIN call.before) =>
          (call.returned = <<>> <=> start_time >= call.before[call.key].timestamp + TTL)

C28_Witness ==
    /\ Returned
    /\ call.op = "get"
    /\ call.returned = <<Outcome>>
    /\ cache = call.before
    /\ Cardinality(DOMAIN cache) = 2
    /\ now > cache[call.key].timestamp
    /\ ncalls = MaxCalls

\* C29: the entry a call finds under its key was stored for a query with the
\* same normalized text, and a call answered from the cache returns an Outcome
\* made for a query with the same normalized text as its own
C29_HitIsOfSameQuery ==
    /\ (pc \notin {"idle", "entry"} /\ atSubmit # <<>>) =>
          NormalizedQuery(atSubmit[1].data.query) = NormalizedQuery(query)
    /\ (Returned /\ call.op = "get" /\ call.returned # <<>>) =>
          NormalizedQuery(Outcome.query) = NormalizedQuery(query)
====
